---- MODULE Spec2Model ----
(***************************************************************************)
(* Torrey Pines waitlist automation: the job lifecycle of app.py (the     *)
(* request handlers, the APScheduler triggers and the run_job threads)    *)
(* and the polling loops of automation.py (wait_for_join_button and       *)
(* check_submission_result).                                               *)
(*                                                                         *)
(* Three specifications share the module:                                  *)
(*   Spec          the job lifecycle (app.py)                              *)
(*   PollerSpec    wait_for_join_button against a simulated page           *)
(*   VerifierSpec  check_submission_result against a simulated page        *)
(* Each keeps the variables of the other two at their initial values.      *)
(***************************************************************************)
EXTENDS Integers, Sequences, FiniteSets, TLC

(***************************************************************************)
(* Bounds of the lifecycle model.                                          *)
(***************************************************************************)
MaxJobs == 1
MaxThreads == 2
MaxReqs == 1
MaxTime == 2

JobIds == 1..MaxJobs
ThreadIds == 1..MaxThreads
ReqIds == 1..MaxReqs

(***************************************************************************)
(* Times.  The wall clock of the process and every scheduled time are      *)
(* points on one Pacific-time axis, counted in minutes from start-up.      *)
(* A scheduledTime of a request is the text of a naive ISO datetime; the   *)
(* text of minute n is represented by the number n, None / "" by NoTime    *)
(* and a text datetime.fromisoformat rejects by BadTime.                   *)
(***************************************************************************)
NoTime == 0
BadTime == -1
ParseError == -2
NoStamp == -1

TimeTexts == 1..MaxTime
ScheduledTimeInputs == {NoTime, BadTime} \cup TimeTexts

\* `if scheduled_time:` -- None and the empty string are falsy.
Truthy(s) == s # NoTime

\* datetime.fromisoformat(scheduled_time): the minute the text denotes, or
\* ParseError when the text is no ISO datetime (ValueError).
FromIsoFormat(s) == IF s \in TimeTexts THEN s ELSE ParseError

\* The same parse read in a zone that is one minute ahead of Pacific time.
RunDateShifted(s) == IF FromIsoFormat(s) = ParseError THEN ParseError
                     ELSE FromIsoFormat(s) - 1

\* run_time = PACIFIC_TZ.localize(datetime.fromisoformat(scheduled_time)):
\* the naive time is read as Pacific time, the zone of the clock.
RunDate(s) == FromIsoFormat(s)

(***************************************************************************)
(* Job records (table jobs).                                               *)
(***************************************************************************)
NoMessage == "<null>"

NoJob == [status |-> "absent", scheduled_time |-> NoTime,
          result_message |-> NoMessage, completed_at |-> NoStamp]

\* The row create_job inserts (app.py 149-161).
NewJob(scheduled_time, run_now) ==
    [status |-> "pending",
     scheduled_time |-> IF run_now THEN NoTime ELSE scheduled_time,
     result_message |-> NoMessage, completed_at |-> NoStamp]

(***************************************************************************)
(* What run_waitlist_automation hands back to run_job: a returned outcome  *)
(* {status, message} or an exception escaping the call.                    *)
(***************************************************************************)
AutomationOutcomes ==
    { [kind |-> "return", status |-> "success",
       message |-> "Successfully joined waitlist!"],
      [kind |-> "return", status |-> "error",
       message |-> "Automation error: timeout"],
      [kind |-> "raise", status |-> "", message |-> "boom"] }

\* No outcome yet: the orchestrator call has not come back.
NoOutcome == [kind |-> "none", status |-> "", message |-> ""]

\* A mapping that takes every outcome for a success.
FinalStatusCompleted(o) == "completed"

\* run_job lines 90-96: the status and message stored for an outcome.
FinalStatus(o) == IF o.kind = "return" /\ o.status = "success"
                  THEN "completed" ELSE "failed"
FinalMessage(o) == IF o.kind = "return" THEN o.message ELSE "Error: " \o o.message

VARIABLES
    jobs,       \* table jobs: job id -> row, NoJob when there is no row
    nextId,     \* the next AUTOINCREMENT id
    triggers,   \* scheduler job store: job id -> trigger, NoTrigger if none
    clock,      \* datetime.now(PACIFIC_TZ)
    threads,    \* the run_job executions: thread slot -> its position and locals
    reqs,       \* the HTTP requests in flight: slot -> handler position and locals
    poll,       \* one call of wait_for_join_button: its arguments, position, counters
    ver,        \* one call of check_submission_result: its position and locals
    auto        \* one call of run_waitlist_automation: its position, locals, browser

lifeVars == <<jobs, nextId, triggers, clock, threads, reqs>>
vars == <<jobs, nextId, triggers, clock, threads, reqs, poll, ver, auto>>

(***************************************************************************)
(* Scheduler job store, threads, requests.                                 *)
(***************************************************************************)
\* A trigger holds the run_date add_job was given; scheduled_time is the text
\* the handler computed it from.
NoTrigger == [run_date |-> NoTime, scheduled_time |-> NoTime]

NoThread == [job |-> 0, pc |-> "unused", origin |-> "none",
             outcome |-> NoOutcome, status |-> "", message |-> NoMessage]

NoReq == [op |-> "none", pc |-> "idle", job |-> 0,
          scheduled_time |-> NoTime, run_now |-> FALSE]

\* data.get('scheduledTime', ...) when the request body has no such key.
Absent == -3

HasFreeThread == \E t \in ThreadIds : threads[t] = NoThread
FreeThread == CHOOSE t \in ThreadIds :
                 /\ threads[t] = NoThread
                 /\ \A u \in ThreadIds : threads[u] = NoThread => t <= u

\* threading.Thread(target=run_job, args=(job_id,)).start(), or the
\* scheduler's executor calling run_job(job_id): a new execution of run_job.
StartRunJob(j, origin) ==
    /\ HasFreeThread
    /\ threads' = [threads EXCEPT ![FreeThread] =
                      [job |-> j, pc |-> "select", origin |-> origin,
                       outcome |-> NoOutcome,
                       status |-> "", message |-> NoMessage]]

\* scheduler.remove_job(f'job_{job_id}') inside try/except: idempotent.
RemoveTrigger(j) == triggers' = [triggers EXCEPT ![j] = NoTrigger]

\* scheduler.add_job(run_job, 'date', run_date=run_time, args=[job_id],
\*                   id=f'job_{job_id}', replace_existing=True)
AddTrigger(j, s) ==
    triggers' = [triggers EXCEPT ![j] =
                    [run_date |-> RunDate(s), scheduled_time |-> s]]

Finish(r) == reqs' = [reqs EXCEPT ![r] = NoReq]
Goto(r, pc) == reqs' = [reqs EXCEPT ![r].pc = pc]

(***************************************************************************)
(* Initial state: init_db() and scheduler.start() have run.                *)
(***************************************************************************)
LifeInit ==
    /\ jobs = [j \in JobIds |-> NoJob]
    /\ nextId = 1
    /\ triggers = [j \in JobIds |-> NoTrigger]
    /\ clock = 0
    /\ threads = [t \in ThreadIds |-> NoThread]
    /\ reqs = [r \in ReqIds |-> NoReq]

(***************************************************************************)
(* POST /api/jobs : create_job (app.py 133-192).  A request that misses a  *)
(* required field returns 400 before touching anything and is not a step.  *)
(***************************************************************************)
\* lines 144-165: INSERT the row, commit.
CreateJobInsert(r, scheduled_time, run_now) ==
    /\ reqs[r] = NoReq
    /\ nextId <= MaxJobs
    /\ jobs' = [jobs EXCEPT ![nextId] = NewJob(scheduled_time, run_now)]
    /\ nextId' = nextId + 1
    /\ reqs' = [reqs EXCEPT ![r] =
                   [op |-> "create", pc |-> "dispatch", job |-> nextId,
                    scheduled_time |-> scheduled_time, run_now |-> run_now]]
    /\ UNCHANGED <<triggers, clock, threads>>

\* lines 167-171: if run_now, start the thread.
CreateJobRunNow(r) ==
    /\ reqs[r].op = "create" /\ reqs[r].pc = "dispatch"
    /\ reqs[r].run_now
    /\ StartRunJob(reqs[r].job, "thread")
    /\ Finish(r)
    /\ UNCHANGED <<jobs, nextId, triggers, clock>>

\* lines 172-187: elif scheduled_time, parse it and add the trigger.
CreateJobSchedule(r) ==
    /\ reqs[r].op = "create" /\ reqs[r].pc = "dispatch"
    /\ ~reqs[r].run_now
    /\ Truthy(reqs[r].scheduled_time)
    /\ RunDate(reqs[r].scheduled_time) # ParseError
    /\ AddTrigger(reqs[r].job, reqs[r].scheduled_time)
    /\ Finish(r)
    /\ UNCHANGED <<jobs, nextId, clock, threads>>

\* lines 188-190: the parse raised; 500, the row stays, no trigger.
\* line 192: neither run_now nor a scheduled time; plain return.
CreateJobReturn(r) ==
    /\ reqs[r].op = "create" /\ reqs[r].pc = "dispatch"
    /\ ~reqs[r].run_now
    /\ \/ ~Truthy(reqs[r].scheduled_time)
       \/ RunDate(reqs[r].scheduled_time) = ParseError
    /\ Finish(r)
    /\ UNCHANGED <<jobs, nextId, triggers, clock, threads>>

(***************************************************************************)
(* PUT /api/jobs/<id> : update_job (app.py 206-263).  404 and 400 return   *)
(* before touching anything.                                               *)
(***************************************************************************)
\* lines 209-220: SELECT the row, require status pending.  The local
\* scheduled_time is data.get('scheduledTime', job['scheduled_time']).
UpdateJobCheck(r, j, given) ==
    /\ reqs[r] = NoReq
    /\ jobs[j] # NoJob
    /\ jobs[j].status = "pending"
    /\ reqs' = [reqs EXCEPT ![r] =
                   [op |-> "update", pc |-> "remove", job |-> j,
                    scheduled_time |-> IF given = Absent
                                       THEN jobs[j].scheduled_time ELSE given,
                    run_now |-> FALSE]]
    /\ UNCHANGED <<jobs, nextId, triggers, clock, threads>>

\* lines 222-226
UpdateJobRemove(r) ==
    /\ reqs[r].op = "update" /\ reqs[r].pc = "remove"
    /\ RemoveTrigger(reqs[r].job)
    /\ Goto(r, "write")
    /\ UNCHANGED <<jobs, nextId, clock, threads>>

\* lines 228-242: UPDATE ... WHERE id = ? (no row, no effect), commit.
UpdateJobWrite(r) ==
    /\ reqs[r].op = "update" /\ reqs[r].pc = "write"
    /\ jobs' = IF jobs[reqs[r].job] = NoJob THEN jobs
               ELSE [jobs EXCEPT ![reqs[r].job].scheduled_time =
                                     reqs[r].scheduled_time]
    /\ Goto(r, "add")
    /\ UNCHANGED <<nextId, triggers, clock, threads>>

\* lines 244-258: reschedule.
UpdateJobReschedule(r) ==
    /\ reqs[r].op = "update" /\ reqs[r].pc = "add"
    /\ Truthy(reqs[r].scheduled_time)
    /\ RunDate(reqs[r].scheduled_time) # ParseError
    /\ AddTrigger(reqs[r].job, reqs[r].scheduled_time)
    /\ Finish(r)
    /\ UNCHANGED <<jobs, nextId, clock, threads>>

\* lines 246, 259-263: nothing to schedule, or the parse raised (logged).
UpdateJobReturn(r) ==
    /\ reqs[r].op = "update" /\ reqs[r].pc = "add"
    /\ \/ ~Truthy(reqs[r].scheduled_time)
       \/ RunDate(reqs[r].scheduled_time) = ParseError
    /\ Finish(r)
    /\ UNCHANGED <<jobs, nextId, triggers, clock, threads>>

(***************************************************************************)
(* DELETE /api/jobs/<id> : delete_job (app.py 265-285).                    *)
(***************************************************************************)
\* lines 268-273: SELECT the row; any status passes.
DeleteJobCheck(r, j) ==
    /\ reqs[r] = NoReq
    /\ jobs[j] # NoJob
    /\ reqs' = [reqs EXCEPT ![r] =
                   [op |-> "delete", pc |-> "remove", job |-> j,
                    scheduled_time |-> NoTime, run_now |-> FALSE]]
    /\ UNCHANGED <<jobs, nextId, triggers, clock, threads>>

\* lines 275-279
DeleteJobRemove(r) ==
    /\ reqs[r].op = "delete" /\ reqs[r].pc = "remove"
    /\ RemoveTrigger(reqs[r].job)
    /\ Goto(r, "delete")
    /\ UNCHANGED <<jobs, nextId, clock, threads>>

\* lines 281-285
DeleteJobDelete(r) ==
    /\ reqs[r].op = "delete" /\ reqs[r].pc = "delete"
    /\ jobs' = [jobs EXCEPT ![reqs[r].job] = NoJob]
    /\ Finish(r)
    /\ UNCHANGED <<nextId, triggers, clock, threads>>

(***************************************************************************)
(* POST /api/jobs/<id>/run : run_job_now (app.py 287-313).                 *)
(***************************************************************************)
\* lines 290-301: SELECT the row, require status pending.
RunJobNowCheck(r, j) ==
    /\ reqs[r] = NoReq
    /\ jobs[j] # NoJob
    /\ jobs[j].status = "pending"
    /\ reqs' = [reqs EXCEPT ![r] =
                   [op |-> "run_now", pc |-> "remove", job |-> j,
                    scheduled_time |-> NoTime, run_now |-> TRUE]]
    /\ UNCHANGED <<jobs, nextId, triggers, clock, threads>>

\* lines 303-307
RunJobNowRemove(r) ==
    /\ reqs[r].op = "run_now" /\ reqs[r].pc = "remove"
    /\ RemoveTrigger(reqs[r].job)
    /\ Goto(r, "start")
    /\ UNCHANGED <<jobs, nextId, clock, threads>>

\* lines 309-313
RunJobNowStart(r) ==
    /\ reqs[r].op = "run_now" /\ reqs[r].pc = "start"
    /\ StartRunJob(reqs[r].job, "thread")
    /\ Finish(r)
    /\ UNCHANGED <<jobs, nextId, triggers, clock>>

(***************************************************************************)
(* run_job (app.py 64-107), one execution per thread slot.                 *)
(***************************************************************************)
\* run_job without the `if not job: return` of lines 71-73.
RunJobSelectUnchecked(t) ==
    /\ threads[t].pc = "select"
    /\ threads' = [threads EXCEPT ![t].pc = "mark"]
    /\ UNCHANGED <<jobs, nextId, triggers, clock, reqs>>

\* lines 68-73: SELECT the row; no row: log and return.
RunJobSelect(t) ==
    /\ threads[t].pc = "select"
    /\ threads' = [threads EXCEPT ![t] =
                      IF jobs[threads[t].job] = NoJob THEN NoThread
                      ELSE [threads[t] EXCEPT !.pc = "mark"]]
    /\ UNCHANGED <<jobs, nextId, triggers, clock, reqs>>

\* run_job without the UPDATE of lines 75-77.
MarkRunningSkipped(j) == jobs

\* lines 75-77: UPDATE jobs SET status = 'running' WHERE id = ?, commit.
\* The statement names no expected status; without a row it changes nothing.
MarkRunning(j) ==
    IF jobs[j] = NoJob THEN jobs ELSE [jobs EXCEPT ![j].status = "running"]

RunJobMarkRunning(t) ==
    /\ threads[t].pc = "mark"
    /\ jobs' = MarkRunning(threads[t].job)
    /\ threads' = [threads EXCEPT ![t].pc = "automation"]
    /\ UNCHANGED <<nextId, triggers, clock, reqs>>

\* lines 79-96: the orchestrator call and the mapping of its outcome.
RunJobAutomation(t, o) ==
    /\ threads[t].pc = "automation"
    /\ threads' = [threads EXCEPT ![t] =
                      [@ EXCEPT !.pc = "write",
                                !.outcome = o,
                                !.status = FinalStatus(o),
                                !.message = FinalMessage(o)]]
    /\ UNCHANGED <<jobs, nextId, triggers, clock, reqs>>

\* lines 98-104: UPDATE jobs SET status, result_message, completed_at
\* WHERE id = ?; without a row it changes nothing.
WriteResult(j, status, message, now) ==
    IF jobs[j] = NoJob THEN jobs
    ELSE [jobs EXCEPT ![j].status = status,
                      ![j].result_message = message,
                      ![j].completed_at = now]

\* lines 98-107: store the result; the execution ends.
RunJobWriteResult(t) ==
    /\ threads[t].pc = "write"
    /\ jobs' = WriteResult(threads[t].job, threads[t].status,
                           threads[t].message, clock)
    /\ threads' = [threads EXCEPT ![t] = NoThread]
    /\ UNCHANGED <<nextId, triggers, clock, reqs>>

(***************************************************************************)
(* The scheduler (BackgroundScheduler, 'date' triggers) and the clock.     *)
(***************************************************************************)
\* A date trigger is due once the clock has reached its run_date.
Due(j) == triggers[j] # NoTrigger /\ triggers[j].run_date <= clock

\* The scheduler fires a due trigger: run_job(job_id) starts on an executor
\* thread and the single-shot trigger leaves the job store.
FireTrigger(j) ==
    /\ Due(j)
    /\ StartRunJob(j, "trigger")
    /\ RemoveTrigger(j)
    /\ UNCHANGED <<jobs, nextId, clock, reqs>>

Tick ==
    /\ clock < MaxTime
    /\ clock' = clock + 1
    /\ UNCHANGED <<jobs, nextId, triggers, threads, reqs>>

LifeNext ==
    \/ \E r \in ReqIds :
          \/ \E s \in ScheduledTimeInputs, n \in BOOLEAN : CreateJobInsert(r, s, n)
          \/ CreateJobRunNow(r)
          \/ CreateJobSchedule(r)
          \/ CreateJobReturn(r)
          \/ \E j \in JobIds, g \in ScheduledTimeInputs \cup {Absent} :
                UpdateJobCheck(r, j, g)
          \/ UpdateJobRemove(r)
          \/ UpdateJobWrite(r)
          \/ UpdateJobReschedule(r)
          \/ UpdateJobReturn(r)
          \/ \E j \in JobIds : DeleteJobCheck(r, j)
          \/ DeleteJobRemove(r)
          \/ DeleteJobDelete(r)
          \/ \E j \in JobIds : RunJobNowCheck(r, j)
          \/ RunJobNowRemove(r)
          \/ RunJobNowStart(r)
    \/ \E t \in ThreadIds :
          \/ RunJobSelect(t)
          \/ RunJobMarkRunning(t)
          \/ \E o \in AutomationOutcomes : RunJobAutomation(t, o)
          \/ RunJobWriteResult(t)
    \/ \E j \in JobIds : FireTrigger(j)
    \/ Tick

(***************************************************************************)
(* wait_for_join_button (automation.py 125-145) against a page on which    *)
(* the join control is clickable from check number clickable_at on         *)
(* (0: never).                                                             *)
(***************************************************************************)
MaxAttemptsBound == 4
MaxRefreshInterval == 2
\* WebDriverWait(driver, 3): a check that misses waits its full timeout.
CheckTimeout == 3

PollIdle == [pc |-> "idle", max_attempts |-> 0, refresh_interval |-> 0,
             clickable_at |-> 0, attempt |-> 0, checks |-> 0, sleeps |-> 0,
             refreshes |-> 0, elapsed |-> 0]

\* EC.element_to_be_clickable at the k-th check of the call.
Clickable(k) == poll.clickable_at # 0 /\ k >= poll.clickable_at

\* A loop that makes one attempt more than its budget.
InRangeInclusive(attempt, max_attempts) == attempt <= max_attempts

\* `for attempt in range(max_attempts)`: attempt runs over 0 .. max_attempts-1.
InRange(attempt, max_attempts) == attempt < max_attempts

\* The call with its arguments, before the first attempt; the control is
\* clickable from the check numbered clickable_at on (0: never).
PollStart(max_attempts, refresh_interval, clickable_at) ==
    [pc |-> "loop", max_attempts |-> max_attempts,
     refresh_interval |-> refresh_interval, clickable_at |-> clickable_at,
     attempt |-> 0, checks |-> 0, sleeps |-> 0, refreshes |-> 0, elapsed |-> 0]

PollInit ==
    \E m \in 0..MaxAttemptsBound, i \in 1..MaxRefreshInterval,
       c \in 0..(MaxAttemptsBound + 1) :
        poll = PollStart(m, i, c)

\* lines 133-138: the check finds the control clickable; return it.
PollCheckHit ==
    /\ poll.pc = "loop"
    /\ InRange(poll.attempt, poll.max_attempts)
    /\ Clickable(poll.checks + 1)
    /\ poll' = [poll EXCEPT !.checks = @ + 1, !.pc = "returned"]

\* A miss that accounts for the sleep only, not for the timed-out check.
PollCheckMissNoWait ==
    /\ poll.pc = "loop"
    /\ InRange(poll.attempt, poll.max_attempts)
    /\ ~Clickable(poll.checks + 1)
    /\ poll' = [poll EXCEPT !.checks = @ + 1,
                            !.sleeps = @ + 1,
                            !.refreshes = @ + 1,
                            !.elapsed = @ + poll.refresh_interval,
                            !.attempt = @ + 1]

\* lines 139-143: the check times out; log, sleep, reload, next attempt.
PollCheckMiss ==
    /\ poll.pc = "loop"
    /\ InRange(poll.attempt, poll.max_attempts)
    /\ ~Clickable(poll.checks + 1)
    /\ poll' = [poll EXCEPT !.checks = @ + 1,
                            !.sleeps = @ + 1,
                            !.refreshes = @ + 1,
                            !.elapsed = @ + CheckTimeout + poll.refresh_interval,
                            !.attempt = @ + 1]

\* An exhausted loop that starts the call over instead of raising.
PollExhaustedRetry ==
    /\ poll.pc = "loop"
    /\ ~InRange(poll.attempt, poll.max_attempts)
    /\ poll' = PollStart(poll.max_attempts, poll.refresh_interval,
                         poll.clickable_at)

\* line 145: the loop ran out; raise.
PollExhausted ==
    /\ poll.pc = "loop"
    /\ ~InRange(poll.attempt, poll.max_attempts)
    /\ poll' = [poll EXCEPT !.pc = "raised"]

PollNext == PollCheckHit \/ PollCheckMiss \/ PollExhausted

(***************************************************************************)
(* check_submission_result (automation.py 148-184) against a page whose    *)
(* URL and source change freely between reads.                             *)
(*                                                                         *)
(* A URL is the sequence of its parts and a page source the set of the     *)
(* pieces of text in it; `x in s` is asked only of the probes below, each  *)
(* of which is a part (a piece) or is not there.                           *)
(***************************************************************************)
FORM_URL == <<"/details", "registration=waitlist">>
FORM_URL_STEP == <<"/details", "registration=waitlist", "step=2">>
WELCOME_URL == <<"/welcome">>
CONFIRMATION_URL == <<"/visits", "confirmation">>
STATUS_URL == <<"/visits", "/status">>
Urls == {FORM_URL, FORM_URL_STEP, WELCOME_URL, CONFIRMATION_URL, STATUS_URL}

InUrl(part, url) == \E i \in 1..Len(url) : url[i] = part

Pieces == {"you're on the list", "YOU'RE ON THE LIST", "You are on the list",
           "Position", "line", "Error", "try again"}
Sources == SUBSET Pieces

\* str.lower() of one piece of text.
LowerPiece(p) ==
    CASE p = "YOU'RE ON THE LIST" -> "you're on the list"
      [] p = "You are on the list" -> "you are on the list"
      [] p = "Position" -> "position"
      [] p = "Error" -> "error"
      [] OTHER -> p

\* The page source used as it came.
SameCase(source) == source

\* driver.page_source.lower()
Lower(source) == {LowerPiece(p) : p \in source}

InText(phrase, text) == phrase \in text

\* lines 161-167: the success indicators.
SuccessSignal(current_url, page_text) ==
    \/ InText("you're on the list", page_text)
    \/ InText("you are on the list", page_text)
    \/ InUrl("confirmation", current_url)
    \/ InUrl("/status", current_url)
    \/ (InText("position", page_text) /\ InText("line", page_text))

\* The test of line 171 with its `not` dropped.
UrlChangedInverted(current_url, original_url) ==
    /\ current_url # original_url
    /\ InUrl("registration=waitlist", current_url)

\* line 171: the URL changed away from the registration form.
UrlChanged(current_url, original_url) ==
    /\ current_url # original_url
    /\ ~InUrl("registration=waitlist", current_url)

\* line 175: the error indicators.
ErrorSignal(page_text) ==
    InText("error", page_text) /\ InText("try again", page_text)

\* The verdicts (success, message); a message that quotes a URL carries it.
NoUrl == <<>>
Verdict(success, message, url) ==
    [success |-> success, message |-> message, url |-> url]
NoVerdict == Verdict(FALSE, "", NoUrl)

\* timeout=15 (line 268) and time.sleep(0.5) (line 178): time is counted in
\* sleeps of half a second; the reads of the driver take no time.
VerifyTimeout == 15
SleepsPerSecond == 2
TimeoutTicks == VerifyTimeout * SleepsPerSecond

VerIdle == [pc |-> "idle", elapsed |-> 0, original_url |-> NoUrl,
            current_url |-> NoUrl, source |-> {}, samples |-> 0,
            quiet |-> TRUE, final_url |-> NoUrl, result |-> NoVerdict]

\* A timeout verdict that always infers success.
TimeoutVerdictOptimistic(url) ==
    Verdict(TRUE, "Submission completed. Final URL", url)

\* lines 180-184: the verdict once the timeout has passed.
TimeoutVerdict(url) ==
    IF InUrl("registration=waitlist", url)
    THEN Verdict(FALSE, "Form did not submit - still on registration page", NoUrl)
    ELSE Verdict(TRUE, "Submission completed. Final URL", url)

\* line 156: while time.time() - start < timeout
WithinTimeout(elapsed) == elapsed < TimeoutTicks

\* A sample that shows nothing: the URL of the start, no success signal,
\* no error signal.
QuietSample(url, source, original_url) ==
    /\ url = original_url
    /\ ~SuccessSignal(url, Lower(source))
    /\ ~ErrorSignal(Lower(source))

\* lines 153-154: start = time.time(); original_url = driver.current_url
\* lines 153-154: the call reads driver.current_url on entry.
VerStart(url) == [VerIdle EXCEPT !.pc = "loop", !.original_url = url]

VerInit == \E u \in Urls : ver = VerStart(u)

\* The cycle with the error test moved in front of the other two.
VerSampleErrorFirst(url, source) ==
    /\ ver.pc = "loop"
    /\ WithinTimeout(ver.elapsed)
    /\ LET page_text == Lower(source)
           seen == [ver EXCEPT !.current_url = url, !.source = source,
                               !.samples = @ + 1,
                               !.quiet = @ /\ QuietSample(url, source,
                                                          ver.original_url)]
       IN  ver' =
             IF ErrorSignal(page_text)
             THEN [seen EXCEPT !.pc = "done",
                     !.result = Verdict(FALSE, "Submission error detected on page", NoUrl)]
             ELSE IF SuccessSignal(url, page_text)
             THEN [seen EXCEPT !.pc = "done",
                     !.result = Verdict(TRUE, "Successfully joined waitlist! URL", url)]
             ELSE IF UrlChanged(url, ver.original_url)
             THEN [seen EXCEPT !.pc = "done",
                     !.result = Verdict(TRUE, "Form submitted, redirected to", url)]
             ELSE [seen EXCEPT !.elapsed = @ + 1]

\* One cycle of the loop, lines 156-178, on the sample (url, source) the
\* driver returns: the first matching signal returns, else sleep.
VerSample(url, source) ==
    /\ ver.pc = "loop"
    /\ WithinTimeout(ver.elapsed)
    /\ LET page_text == Lower(source)
           seen == [ver EXCEPT !.current_url = url, !.source = source,
                               !.samples = @ + 1,
                               !.quiet = @ /\ QuietSample(url, source,
                                                          ver.original_url)]
       IN  ver' =
             IF SuccessSignal(url, page_text)
             THEN [seen EXCEPT !.pc = "done",
                     !.result = Verdict(TRUE, "Successfully joined waitlist! URL", url)]
             ELSE IF UrlChanged(url, ver.original_url)
             THEN [seen EXCEPT !.pc = "done",
                     !.result = Verdict(TRUE, "Form submitted, redirected to", url)]
             ELSE IF ErrorSignal(page_text)
             THEN [seen EXCEPT !.pc = "done",
                     !.result = Verdict(FALSE, "Submission error detected on page", NoUrl)]
             ELSE [seen EXCEPT !.elapsed = @ + 1]

\* lines 180-184: the timeout passed; the verdict rests on one more read of
\* driver.current_url.
VerTimeout(url) ==
    /\ ver.pc = "loop"
    /\ ~WithinTimeout(ver.elapsed)
    /\ ver' = [ver EXCEPT
          !.pc = "done",
          !.final_url = url,
          !.quiet = @ /\ url = ver.original_url,
          !.result = TimeoutVerdict(url)]

VerNext ==
    \/ \E u \in Urls, s \in Sources : VerSample(u, s)
    \/ \E u \in Urls : VerTimeout(u)

(***************************************************************************)
(* run_waitlist_automation (automation.py 187-306) with create_driver      *)
(* (39-83) and the element helpers (86-122).                               *)
(***************************************************************************)
\* The arguments of the call of wait_for_join_button in line 220.
JoinMaxAttempts == 120
JoinRefreshInterval == 2
\* The check from which the join control is clickable in a run (0: never).
JoinClickableAt == {0, 1, 2}

\* The fields of lines 227-230 and the dropdowns of lines 236-237.
FormFields == <<"form_firstName", "form_lastName", "form_email", "form_phone">>
Dropdowns == <<"react-select-2-input", "react-select-3-input">>

\* What the page shows after the submit click, as the runs sample it.
AutoUrls == {FORM_URL, FORM_URL_STEP, WELCOME_URL, CONFIRMATION_URL}
AutoSources == {{}, {"YOU'RE ON THE LIST"}, {"Error", "try again"}}

\* str(e) of the exceptions the stages raise.
TimeoutMessage == "Message: timeout"
DriverMessage == "chrome not reachable"
ExhaustedMessage == "'Join waitlist' button not available after 120 attempts"
DisabledMessage == "Submit button is disabled - waitlist may be closed"

\* The dict the function returns; a message that quotes a URL carries it.
NoResult == [status |-> "", message |-> "", url |-> NoUrl]
ErrorResult(message) == [status |-> "error", message |-> message, url |-> NoUrl]
SuccessResult(v) == [status |-> "success", message |-> v.message, url |-> v.url]

\* An error text that drops what the exception said.
ErrorMessageBare(e) == "Automation error"

\* line 286: error_msg = f"Automation error: {str(e)}"
ErrorMessage(e) == "Automation error: " \o e

\* wait_for_element, lines 88-91: WebDriverWait(...).until(...) returns the
\* element or raises TimeoutException.  element_to_be_clickable needs the
\* element displayed and enabled.
WaitPresent(present) == IF present THEN "found" ELSE "timeout"
WaitClickable(present, disabled) ==
    IF present /\ ~disabled THEN "found" ELSE "timeout"

\* create_driver: webdriver.Chrome(...) of line 61 starts the browser or
\* raises; set_script_timeout / execute_script of lines 67-70 run on the
\* started browser outside any try; the geolocation failure of lines 73-81
\* is logged only.
CreateDriverOutcomes == {"launch_failed", "config_failed", "geolocation_failed", "ok"}
CreateDriver(outcome) ==
    CASE outcome = "launch_failed" ->
           [browser |-> "none", returned |-> FALSE, error |-> DriverMessage]
      [] outcome = "config_failed" ->
           [browser |-> "open", returned |-> FALSE, error |-> DriverMessage]
      [] OTHER ->
           [browser |-> "open", returned |-> TRUE, error |-> ""]

\* The call before line 204.  driver: the local `driver` is not None;
\* browser: the browser process ("none", "open", "closed"); stage: the last
\* stage that ran; failed_stage: the stage whose exception was caught.
AutoIdle ==
    [pc |-> "idle", driver |-> FALSE, browser |-> "none", stage |-> "none",
     failed_stage |-> "none", error |-> "", page_url |-> NoUrl,
     pre_submit_url |-> NoUrl, filled |-> 0, selected |-> 0,
     submit_disabled |-> FALSE, submit_clicked |-> FALSE, screenshots |-> 0,
     screenshot_failed |-> FALSE, quit_failed |-> FALSE, result |-> NoResult]

\* An exception of text e leaves the try block at the given stage.
Raise(stage, e) ==
    [auto EXCEPT !.pc = "except", !.stage = stage, !.failed_stage = stage,
                 !.error = e]

AutoInit == auto = [AutoIdle EXCEPT !.pc = "create"]

\* line 209: driver = create_driver(headless=headless)
AutoCreateDriver(outcome) ==
    /\ auto.pc = "create"
    /\ LET d == CreateDriver(outcome)
       IN  auto' = IF d.returned
                   THEN [auto EXCEPT !.pc = "load", !.stage = "create",
                                     !.driver = TRUE, !.browser = d.browser]
                   ELSE [Raise("create", d.error) EXCEPT !.browser = d.browser]
    /\ UNCHANGED <<poll, ver>>

\* lines 214-216: driver.get(WELCOME_URL), wait for <body>; then the call of
\* line 220 begins.
AutoLoad(present, clickable_at) ==
    /\ auto.pc = "load"
    /\ IF WaitPresent(present) = "found"
       THEN /\ auto' = [auto EXCEPT !.pc = "join", !.stage = "load",
                                    !.page_url = WELCOME_URL]
            /\ poll' = PollStart(JoinMaxAttempts, JoinRefreshInterval,
                                 clickable_at)
       ELSE /\ auto' = Raise("load", TimeoutMessage)
            /\ UNCHANGED poll
    /\ UNCHANGED ver

\* line 220: wait_for_join_button is running.
AutoJoinPoll ==
    /\ auto.pc = "join"
    /\ PollNext
    /\ auto' = [auto EXCEPT !.stage = "join"]
    /\ UNCHANGED ver

\* line 220 raising (line 145).
AutoJoinExhausted ==
    /\ auto.pc = "join"
    /\ poll.pc = "raised"
    /\ auto' = Raise("join", ExhaustedMessage)
    /\ UNCHANGED <<poll, ver>>

\* lines 221-223: click the join control, sleep; the form opens at url.
AutoJoinClick(ok, url) ==
    /\ auto.pc = "join"
    /\ poll.pc = "returned"
    /\ auto' = IF ok
               THEN [auto EXCEPT !.pc = "fill", !.stage = "join",
                                 !.page_url = url]
               ELSE Raise("join", DriverMessage)
    /\ UNCHANGED <<poll, ver>>

\* lines 227-230: one fill_input (lines 101-106).
AutoFill(present) ==
    /\ auto.pc = "fill"
    /\ auto' = IF WaitPresent(present) = "found"
               THEN [auto EXCEPT
                       !.stage = "fill",
                       !.filled = @ + 1,
                       !.pc = IF auto.filled + 1 = Len(FormFields)
                              THEN "dropdowns" ELSE "fill"]
               ELSE Raise("fill", TimeoutMessage)
    /\ UNCHANGED <<poll, ver>>

\* lines 235-238: one select_dropdown (lines 109-122).
AutoSelect(present, disabled) ==
    /\ auto.pc = "dropdowns"
    /\ auto' = IF WaitClickable(present, disabled) = "found"
               THEN [auto EXCEPT
                       !.stage = "dropdowns",
                       !.selected = @ + 1,
                       !.pc = IF auto.selected + 1 = Len(Dropdowns)
                              THEN "submit" ELSE "dropdowns"]
               ELSE Raise("dropdowns", TimeoutMessage)
    /\ UNCHANGED <<poll, ver>>

\* lines 244-250: wait up to 5 s for the submit control to be clickable.
\* submit_disabled records that the control was there but disabled.
AutoSubmitLookup(present, disabled) ==
    /\ auto.pc = "submit"
    /\ auto' = IF WaitClickable(present, disabled) = "found"
               THEN [auto EXCEPT !.pc = "check", !.stage = "submit"]
               ELSE [Raise("submit", TimeoutMessage) EXCEPT
                       !.submit_disabled = present /\ disabled]
    /\ UNCHANGED <<poll, ver>>

\* lines 253-262: read the control's `disabled` attribute; truthy: return the
\* error dict (the finally block runs next); else note the URL and click.
AutoSubmitCheck(disabled_now, ok) ==
    /\ auto.pc = "check"
    /\ auto' = IF disabled_now
               THEN [auto EXCEPT !.pc = "finally",
                                 !.submit_disabled = TRUE,
                                 !.result = ErrorResult(DisabledMessage)]
               ELSE IF ok
               THEN [auto EXCEPT !.pc = "settle",
                                 !.pre_submit_url = auto.page_url,
                                 !.submit_clicked = TRUE]
               ELSE [Raise("submit", DriverMessage) EXCEPT
                       !.pre_submit_url = auto.page_url]
    /\ UNCHANGED <<poll, ver>>

\* lines 265-268: sleep(2), during which the page may move on to url; then
\* check_submission_result is entered and reads the URL it finds.
AutoSettle(url) ==
    /\ auto.pc = "settle"
    /\ auto' = [auto EXCEPT !.pc = "verify", !.stage = "verify",
                            !.page_url = url]
    /\ ver' = VerStart(url)
    /\ UNCHANGED poll

\* line 268: check_submission_result is running.
AutoVerifyCycle ==
    /\ auto.pc = "verify"
    /\ \/ \E u \in AutoUrls, s \in AutoSources : VerSample(u, s)
       \/ \E u \in AutoUrls : VerTimeout(u)
    /\ UNCHANGED <<auto, poll>>

\* line 268 raising: a driver call inside check_submission_result fails.
AutoVerifyRaise ==
    /\ auto.pc = "verify"
    /\ ver.pc = "loop"
    /\ auto' = Raise("verify", DriverMessage)
    /\ UNCHANGED <<poll, ver>>

\* lines 270-283: success returns; failure tries a screenshot (an exception
\* of it is swallowed) and returns the verifier's message as an error.
AutoVerified(shot_ok) ==
    /\ auto.pc = "verify"
    /\ ver.pc = "done"
    /\ auto' = IF ver.result.success
               THEN [auto EXCEPT !.pc = "finally",
                                 !.result = SuccessResult(ver.result)]
               ELSE [auto EXCEPT !.pc = "finally",
                                 !.screenshots = @ + 1,
                                 !.screenshot_failed = ~shot_ok,
                                 !.result = ErrorResult(ver.result.message)]
    /\ UNCHANGED <<poll, ver>>

\* lines 285-298: the handler; the screenshot is tried only with a driver
\* and its exception is swallowed.
AutoExcept(shot_ok) ==
    /\ auto.pc = "except"
    /\ auto' = [auto EXCEPT
                  !.pc = "finally",
                  !.screenshots = IF auto.driver THEN @ + 1 ELSE @,
                  !.screenshot_failed = auto.driver /\ ~shot_ok,
                  !.result = ErrorResult(ErrorMessage(auto.error))]
    /\ UNCHANGED <<poll, ver>>

\* lines 300-306: quit the driver the local names; quit() stops the browser
\* process also when it raises, and the exception is swallowed.
AutoFinally(quit_ok) ==
    /\ auto.pc = "finally"
    /\ auto' = [auto EXCEPT
                  !.pc = "returned",
                  !.browser = IF auto.driver THEN "closed" ELSE @,
                  !.quit_failed = auto.driver /\ ~quit_ok]
    /\ UNCHANGED <<poll, ver>>

AutoNext ==
    \/ \E o \in CreateDriverOutcomes : AutoCreateDriver(o)
    \/ \E present \in BOOLEAN, c \in JoinClickableAt : AutoLoad(present, c)
    \/ AutoJoinPoll
    \/ AutoJoinExhausted
    \/ \E ok \in BOOLEAN, u \in {FORM_URL, FORM_URL_STEP} : AutoJoinClick(ok, u)
    \/ \E present \in BOOLEAN : AutoFill(present)
    \/ \E present, disabled \in BOOLEAN : AutoSelect(present, disabled)
    \/ \E present, disabled \in BOOLEAN : AutoSubmitLookup(present, disabled)
    \/ \E disabled_now, ok \in BOOLEAN : AutoSubmitCheck(disabled_now, ok)
    \/ \E u \in AutoUrls : AutoSettle(u)
    \/ AutoVerifyCycle
    \/ AutoVerifyRaise
    \/ \E shot_ok \in BOOLEAN : AutoVerified(shot_ok)
    \/ \E shot_ok \in BOOLEAN : AutoExcept(shot_ok)
    \/ \E quit_ok \in BOOLEAN : AutoFinally(quit_ok)

(***************************************************************************)
(* The specifications.                                                     *)
(***************************************************************************)
Init == LifeInit /\ poll = PollIdle /\ ver = VerIdle /\ auto = AutoIdle
Next == LifeNext /\ UNCHANGED <<poll, ver, auto>>
Spec == Init /\ [][Next]_vars

PollerInit == LifeInit /\ PollInit /\ ver = VerIdle /\ auto = AutoIdle
PollerNext == PollNext /\ UNCHANGED <<jobs, nextId, triggers, clock, threads, reqs, ver, auto>>
PollerSpec == PollerInit /\ [][PollerNext]_vars

VerifierInit == LifeInit /\ VerInit /\ poll = PollIdle /\ auto = AutoIdle
VerifierNext == VerNext /\ UNCHANGED <<jobs, nextId, triggers, clock, threads, reqs, poll, auto>>
VerifierSpec == VerifierInit /\ [][VerifierNext]_vars

\* One run of run_waitlist_automation.
AutomationInit == LifeInit /\ AutoInit /\ poll = PollIdle /\ ver = VerIdle
AutomationNext == AutoNext /\ UNCHANGED lifeVars
AutoSpec == AutomationInit /\ [][AutomationNext]_vars

\* The same run in a thread that keeps being scheduled: a step of the run
\* that can be taken is taken.
AutoFairSpec == AutoSpec /\ WF_vars(AutomationNext)

(***************************************************************************)
(* Properties of the job lifecycle (Spec).                                 *)
(***************************************************************************)
Terminal == {"completed", "failed"}
AllowedStatusChanges ==
    {<<"pending", "running">>, <<"running", "completed">>, <<"running", "failed">>}

InProgress(t) == threads[t] # NoThread

\* C1: every change of a job's stored status is pending->running,
\* running->completed or running->failed; none leaves completed or failed
\* and none goes back to pending.
C1_StatusChangesAllowed ==
    [][\A j \in JobIds :
          (jobs[j] # NoJob /\ jobs'[j] # NoJob
             /\ jobs'[j].status # jobs[j].status)
          => <<jobs[j].status, jobs'[j].status>> \in AllowedStatusChanges]_vars

\* C2: for every job identifier at most one run_job execution is in
\* progress at any time.
C2_AtMostOneExecution ==
    \A j \in JobIds :
        Cardinality({t \in ThreadIds : InProgress(t) /\ threads[t].job = j}) <= 1

\* C3: an execution of run_job that found its job record ends with the
\* job's stored status completed or failed and a non-empty result_message.
C3_ExecutionEndsTerminal ==
    [][\A t \in ThreadIds :
          (threads[t].pc = "write" /\ threads'[t] = NoThread)
          => /\ jobs'[threads[t].job].status \in Terminal
             /\ jobs'[threads[t].job].result_message \notin {NoMessage, ""}]_vars

\* C4: a job whose status is running, completed or failed has no trigger in
\* the scheduler (so none is held when the status leaves pending).
C4_NoTriggerOutsidePending ==
    \A j \in JobIds :
        jobs[j].status \in {"running"} \cup Terminal => triggers[j] = NoTrigger

\* A step that starts an execution of run_job for job j in thread slot t.
Starts(t, j) == threads[t] = NoThread /\ threads'[t] # NoThread /\ threads'[t].job = j

\* A step in which run-immediately request r (create_job with runNow, or
\* run_job_now) returns.
RunNowReturns(r) == reqs[r].run_now /\ reqs[r].pc \in {"dispatch", "start"} /\ reqs'[r] = NoReq

\* C5: when a run-immediately request returns, a run_job execution for its
\* job has been started and no scheduled trigger exists for the job, and
\* none exists afterwards while that execution is under way.
C5_RunNowLeavesNoTrigger ==
    [][/\ \A r \in ReqIds :
            RunNowReturns(r)
            => /\ \E t \in ThreadIds : Starts(t, reqs[r].job)
               /\ triggers'[reqs[r].job] = NoTrigger
       /\ \A t \in ThreadIds :
            (threads'[t] # NoThread /\ threads'[t].origin = "thread")
            => triggers'[threads'[t].job] = NoTrigger]_vars

PollDone == poll.pc \in {"returned", "raised"}

\* C7: with a control that never becomes clickable the call makes exactly
\* max_attempts checks and raises; with a control first clickable on check
\* k <= max_attempts it makes exactly k checks and returns, having slept and
\* reloaded only after the k-1 misses.
C7_PollerCounts ==
    PollDone =>
      /\ poll.clickable_at = 0
           => poll.pc = "raised" /\ poll.checks = poll.max_attempts
      /\ poll.clickable_at \in 1..poll.max_attempts
           => /\ poll.pc = "returned"
              /\ poll.checks = poll.clickable_at
              /\ poll.sleeps = poll.clickable_at - 1
              /\ poll.refreshes = poll.clickable_at - 1

\* C7 witness: the control became clickable on the third of four checks.
C7_Witness ==
    /\ poll.pc = "returned"
    /\ poll.clickable_at = 3
    /\ poll.max_attempts = 4

(***************************************************************************)
(* Properties of check_submission_result (VerifierSpec).                   *)
(***************************************************************************)
OnTheList == {"you're on the list", "YOU'RE ON THE LIST"}
Redirected(url) == Verdict(TRUE, "Form submitted, redirected to", url)
DidNotSubmit ==
    Verdict(FALSE, "Form did not submit - still on registration page", NoUrl)
IsRegistrationUrl(url) == InUrl("registration=waitlist", url)

\* C8: when the first sample's page text contains "you're on the list" in
\* any letter case, the call returns success on that first cycle, whatever
\* the URL and the other markers.
C8_OnTheListFirstCycle ==
    /\ (ver.samples = 1 /\ ver.source \cap OnTheList # {})
         => ver.pc = "done" /\ ver.result.success
    /\ ver.pc = "done" => ver.samples >= 1

\* C8 witness: upper-case phrase, still on the form URL, error phrase present.
C8_Witness ==
    /\ ver.pc = "done" /\ ver.samples = 1
    /\ ver.source = {"YOU'RE ON THE LIST", "Error", "try again"}
    /\ ver.original_url = FORM_URL /\ ver.current_url = FORM_URL
    /\ ver.result.success

\* C9: when every read shows the original registration URL and neither a
\* success nor an error marker, the call samples until the timeout has
\* elapsed, not returning before, and returns (false, did not submit).
C9_QuietRunFails ==
    (ver.pc = "done" /\ ver.quiet /\ IsRegistrationUrl(ver.original_url))
    => /\ ver.result = DidNotSubmit
       /\ ver.elapsed >= TimeoutTicks
       /\ ver.samples = TimeoutTicks

\* C9 witness: a full quiet window on the form URL.
C9_Witness ==
    /\ ver.pc = "done" /\ ver.quiet
    /\ ver.original_url = FORM_URL /\ ver.final_url = FORM_URL
    /\ ver.samples = TimeoutTicks

\* The last sample shows a URL other than the registration URL the call
\* started on, no success marker (text or URL segment) and no error marker.
NavigatedAwayNoMarker ==
    /\ ver.samples >= 1
    /\ ver.final_url = NoUrl
    /\ IsRegistrationUrl(ver.original_url)
    /\ ver.current_url # ver.original_url
    /\ ~SuccessSignal(ver.current_url, Lower(ver.source))
    /\ ~ErrorSignal(Lower(ver.source))

\* C10 as stated: for every URL the page navigates to, with no success or
\* error marker shown, the cycle that observes the changed URL returns
\* (true, redirected).
C10_AnyUrlChangeRedirected ==
    NavigatedAwayNoMarker
    => ver.pc = "done" /\ ver.result = Redirected(ver.current_url)

\* C10 as amended: the same for every URL that does not contain
\* "registration=waitlist"; a changed URL that still contains it is not
\* taken as a redirect.
C10_UrlChangeRedirected ==
    (NavigatedAwayNoMarker /\ ~IsRegistrationUrl(ver.current_url))
    => ver.pc = "done" /\ ver.result = Redirected(ver.current_url)

\* C10 witness: from the form to the welcome page after some quiet samples.
C10_Witness ==
    /\ ver.pc = "done" /\ ver.samples = 3
    /\ ver.original_url = FORM_URL /\ ver.current_url = WELCOME_URL
    /\ ver.source = {}
    /\ ver.result = Redirected(WELCOME_URL)

(***************************************************************************)
(* Further properties of the job lifecycle (Spec).                         *)
(***************************************************************************)
\* A step in which the execution in thread slot t stores its result and ends.
Stores(t) == threads[t].pc = "write" /\ threads'[t] = NoThread

\* C12: run_job stores completed exactly when the orchestrator returned
\* 'success', failed with the captured message when it returned 'error' or
\* raised; status, message and completion timestamp are written by one
\* statement, once per execution (the row's result fields change in no
\* other step).
C12_ResultMapping ==
    [][/\ \A t \in ThreadIds :
            (Stores(t) /\ jobs[threads[t].job] # NoJob)
            => LET o == threads[t].outcome
                   row == jobs'[threads[t].job]
               IN  /\ row.status \in Terminal
                   /\ row.status = "completed"
                        <=> (o.kind = "return" /\ o.status = "success")
                   /\ o.kind = "return" => row.result_message = o.message
                   /\ o.kind = "raise"
                        => row.result_message = "Error: " \o o.message
                   /\ row.completed_at = clock
       /\ \A j \in JobIds :
            (/\ jobs[j] # NoJob /\ jobs'[j] # NoJob
             /\ \/ jobs'[j].result_message # jobs[j].result_message
                \/ jobs'[j].completed_at # jobs[j].completed_at)
            => \E t \in ThreadIds : Stores(t) /\ threads[t].job = j]_vars

\* C12 witness: a returned error was stored as failed with its message.
C12_Witness ==
    \E j \in JobIds :
        /\ jobs[j].status = "failed"
        /\ jobs[j].result_message = "Automation error: timeout"
        /\ jobs[j].completed_at = 1

\* C15: while an orchestrator run for a job is in progress, the job's
\* stored status is not pending.
C15_NotPendingWhileExecuting ==
    \A t \in ThreadIds :
        threads[t].pc = "automation" => jobs[threads[t].job].status # "pending"

\* C15 witness: an orchestrator run in progress for a job stored as running.
C15_Witness ==
    \E t \in ThreadIds :
        /\ threads[t].pc = "automation"
        /\ jobs[threads[t].job].status = "running"

\* C16: update_job, delete_job and run_job_now go past their check only
\* for a job whose status is pending; for any other status the request is
\* rejected there and changes nothing.
C16_OnlyPendingAccepted ==
    [][\A r \in ReqIds :
          (/\ reqs[r] = NoReq
           /\ reqs'[r].op \in {"update", "delete", "run_now"})
          => jobs[reqs'[r].job].status = "pending"]_vars

\* C17: run_job for an identifier without a job record returns at once:
\* the execution ends without reaching the orchestrator and no job record
\* changes.
C17_MissingJobReturns ==
    [][\A t \in ThreadIds :
          (/\ threads[t].pc = "select"
           /\ jobs[threads[t].job] = NoJob
           /\ threads'[t] # threads[t])
          => threads'[t] = NoThread /\ jobs' = jobs]_vars

\* C17 witness: run_job is about to load a job that was deleted meanwhile.
C17_Witness ==
    \E t \in ThreadIds :
        /\ threads[t].pc = "select"
        /\ threads[t].job \in JobIds
        /\ jobs[threads[t].job] = NoJob

(***************************************************************************)
(* Further properties of check_submission_result (VerifierSpec).           *)
(***************************************************************************)
JoinedVerdict(url) == Verdict(TRUE, "Successfully joined waitlist! URL", url)
ErrorVerdict == Verdict(FALSE, "Submission error detected on page", NoUrl)

\* The state right after a sampling cycle (not after the timeout read).
AfterSample == ver.samples >= 1 /\ ver.final_url = NoUrl

\* C18: in one cycle the success signals are tested first, then the URL
\* change, then the error phrase, and the first match decides: success
\* signal with error phrase gives success, URL change with error phrase
\* gives success, and the error verdict comes only when neither matches.
C18_SignalPriority ==
    AfterSample =>
      LET text == Lower(ver.source)
          success == SuccessSignal(ver.current_url, text)
          changed == UrlChanged(ver.current_url, ver.original_url)
          error == ErrorSignal(text)
      IN  /\ success
               => ver.pc = "done" /\ ver.result = JoinedVerdict(ver.current_url)
          /\ (~success /\ changed)
               => ver.pc = "done" /\ ver.result = Redirected(ver.current_url)
          /\ (~success /\ ~changed /\ error)
               => ver.pc = "done" /\ ver.result = ErrorVerdict
          /\ (ver.pc = "done" /\ ver.result = ErrorVerdict)
               => ~success /\ ~changed /\ error

\* C18 witness: a redirect to the welcome page that shows the error phrase.
C18_Witness ==
    /\ ver.pc = "done"
    /\ ver.original_url = FORM_URL /\ ver.current_url = WELCOME_URL
    /\ ver.source = {"Error", "try again"}
    /\ ver.result = Redirected(WELCOME_URL)

(***************************************************************************)
(* Properties of run_waitlist_automation (AutoSpec, AutoFairSpec).         *)
(***************************************************************************)
Returned == auto.pc = "returned"

\* What run_job stores for the dict the run returned.
StoredStatus ==
    FinalStatus([kind |-> "return", status |-> auto.result.status,
                 message |-> auto.result.message])

\* C11: when the submit control is disabled as the run reaches the submit
\* stage, the run returns the error whose message says the waitlist may be
\* closed, without a click on the control and without running the
\* verifier, and run_job stores failed.
C11_DisabledSubmitReported ==
    (Returned /\ auto.submit_disabled)
    => /\ auto.result = ErrorResult(DisabledMessage)
       /\ ~auto.submit_clicked
       /\ ver = VerIdle
       /\ StoredStatus = "failed"

\* C13: when the run has returned, no browser it started is still open.
C13_SessionClosedOnReturn == Returned => auto.browser # "open"

\* C14: an exception at any stage is caught: after it no stage runs any
\* more (the poller, the verifier, the form counters and the stage stay as
\* they were), and the run returns status 'error' with the exception's
\* message, whatever the screenshot and the teardown do.
C14_ExceptionsBecomeErrors ==
    [][/\ auto.failed_stage # "none"
          => /\ poll' = poll /\ ver' = ver
             /\ auto'.stage = auto.stage
             /\ auto'.failed_stage = auto.failed_stage
             /\ auto'.error = auto.error
             /\ auto'.filled = auto.filled
             /\ auto'.selected = auto.selected
             /\ auto'.submit_clicked = auto.submit_clicked
             /\ auto'.pc \in {"finally", "returned"}
       /\ (auto'.pc = "returned" /\ auto'.failed_stage # "none")
          => /\ auto'.result.status = "error"
             /\ auto'.result.message = "Automation error: " \o auto'.error]_vars

\* C14 witness: the verifier raised, then the screenshot and quit() failed.
C14_Witness ==
    /\ Returned
    /\ auto.failed_stage = "verify"
    /\ auto.screenshot_failed /\ auto.quit_failed
    /\ auto.result = ErrorResult("Automation error: chrome not reachable")

\* C19: the verifier compares against the URL the page had when the submit
\* control was clicked: a cycle that sees another URL, one without the
\* registration marker, and no success signal, reports the redirect.
C19_ChangeFromSubmitUrl ==
    (auto.pc = "verify" /\ auto.failed_stage = "none")
    => /\ ver.original_url = auto.pre_submit_url
       /\ (/\ AfterSample
           /\ ~SuccessSignal(ver.current_url, Lower(ver.source))
           /\ UrlChanged(ver.current_url, auto.pre_submit_url))
          => ver.result = Redirected(ver.current_url)

\* C20: every run returns, with a result, whatever the page does.
C20_RunTerminates == <>(Returned /\ auto.result # NoResult)

\* C20 witness: the join control never became clickable; the run returned
\* the error of the exhausted poller.
C20_Witness ==
    /\ Returned
    /\ poll.pc = "raised"
    /\ poll.checks = JoinMaxAttempts
    /\ auto.result = ErrorResult(ErrorMessage(ExhaustedMessage))

(***************************************************************************)
(* The polling budget at the default settings (AutoSpec: the call of line  *)
(* 220 passes the defaults of line 125).                                   *)
(***************************************************************************)
\* wait_for_join_button has failed at the default settings with a join
\* control that never became clickable.
DefaultPollFailed ==
    /\ poll.pc = "raised"
    /\ poll.max_attempts = 120
    /\ poll.refresh_interval = 2
    /\ poll.clickable_at = 0

\* C21 as stated: at the default settings and with a control that never
\* becomes clickable, the waits and sleeps before the failure add up to
\* 240 time units.
C21_DefaultBudget240 == DefaultPollFailed => poll.elapsed = 240

\* C21 amended: they add up to 600 time units, 120 attempts of a 3-unit
\* check and a 2-unit sleep each.
C21_DefaultBudget600 ==
    DefaultPollFailed
    => /\ poll.elapsed = 600
       /\ poll.checks = 120 /\ poll.sleeps = 120

\* C21 witness: the poller failed at the defaults after 600 time units.
C21_Witness == DefaultPollFailed /\ poll.elapsed = 600

(***************************************************************************)
(* Completion data of the job rows (Spec).                                 *)
(***************************************************************************)
\* C22: a job row has a completion timestamp exactly when its status is
\* completed or failed, and a pending or running row has no result message.
C22_StampIffTerminal ==
    \A j \in JobIds :
        jobs[j] # NoJob
        => /\ (jobs[j].completed_at # NoStamp) <=> (jobs[j].status \in Terminal)
           /\ jobs[j].status \in {"pending", "running"}
                => jobs[j].result_message = NoMessage
====
